---- MODULE Spec2Model ----
(***************************************************************************)
(* Model of src/mbmrl.py: trajectory collection (serial and parallel),     *)
(* the worker/queue protocol, the bounded dataset of the training loop,    *)
(* window sampling, reward evaluation, checkpoints and resuming, and the   *)
(* testing mode.                                                           *)
(*                                                                         *)
(* Tensors are modelled as sequences of integers (one integer per row).    *)
(* A rollout is, as in the code, either the empty list or the list         *)
(* [states, actions, next_states].  The dynamics model has one scalar      *)
(* parameter, theta, and predicts delta_state = theta.                     *)
(***************************************************************************)
EXTENDS Integers, Sequences, FiniteSets, Bags, TLC

\* ------------------------------------------------------------------ bounds
MaxRolloutNum == 3
MaxRolloutLen == 3
MaxSteps == 6
MaxThreads == 3
MaxM == 2
MaxK == 1
MaxAdaptNum == 1
MaxEpisodeLen == 2
MaxEvalSamples == 3
MaxTasks == 2
MaxIter == 3
MaxDatasetSize == 3
MaxTrainRolloutLen == 5
MaxResumes == 1
MaxTestEpisodes == 2
MaxTestEpisodeLen == 5

VARIABLES
    \* configuration, fixed by MBMRL.__init__
    rollout_num, rollout_len, M, K, adaptation_update_num, num_threads,
    dataset_size, tasks, iteration_num, task_sample_frequency,
    task_sample_num, eval_sample_num, eval_frequency,
    \* fields of the MBMRL object
    theta, phi, dataset,
    n_task_steps_total, n_model_steps_total, n_rollouts_total,
    \* the parent's control state: where it is, the iteration of train, the
    \* task of the running collection
    pc, i, task,
    \* the locals of _collect_traj_serial / _collect_traj_parallel, and the
    \* log of the controller.plan calls of the running call
    rollouts, rollout, state, t, n, plan_log,
    \* the state the parent's task object is in
    task_state,
    \* a parallel call: the per-worker counts, the worker list, the queue,
    \* the receive count
    rollout_nums, launched, queue, received,
    \* the worker processes of collection and of evaluation, by pid
    workers, eval_workers,
    \* the locals of the adaptation phase of train and of _sample_traj
    j, new_losses, traj, start_idx, src_rollout,
    \* the local mean_rewards of _evaluate_parallel and _evaluate_serial
    mean_rewards,
    \* the other locals of _evaluate_serial (the index of the task, the
    \* episode of range(5), rewards), the field eval_rewards, and the log of
    \* the controller.plan calls of the running evaluation
    task_idx, episode, rewards, eval_rewards, eval_log,
    \* the checkpoint store of the logger, and the number of times the
    \* training process was stopped
    checkpoint, resumes,
    \* the arguments and locals of test
    test_iteration_num, start_iter, reward_sum, episodes_run, test_log,
    \* history: the number of rollouts appended to the dataset so far
    n_appended

cfgVars == <<rollout_num, rollout_len, M, K, adaptation_update_num,
             num_threads, dataset_size, tasks, iteration_num,
             task_sample_frequency, task_sample_num, eval_sample_num,
             eval_frequency>>
modelVars == <<theta, phi>>
statVars == <<n_task_steps_total, n_model_steps_total, n_rollouts_total>>
localVars == <<rollouts, rollout, state, t, n, plan_log, task_state>>
parVars == <<rollout_nums, launched, queue, received, workers>>
trainVars == <<j, new_losses, traj, start_idx, src_rollout>>
dataVars == <<dataset, n_appended>>
evalVars == <<task_idx, episode, rewards, eval_rewards, eval_log>>
ckptVars == <<checkpoint, resumes>>
testVars == <<test_iteration_num, start_iter, reward_sum, episodes_run, test_log>>
vars == <<cfgVars, modelVars, dataVars, statVars, pc, i, task, localVars,
          parVars, eval_workers, trainVars, mean_rewards, evalVars, ckptVars,
          testVars>>

\* ------------------------------------------------------------ the task
\* A task is a gym environment under a time limit (src/task/__init__.py
\* registers max_episode_steps): an episode ends when the limit is reached.
\* A stochastic task may also end it at any earlier step.  The observation
\* is the number of steps taken since the last reset; every step pays
\* reward 1.
StochasticTask(e) == [episode_len |-> e, stochastic |-> TRUE]
TimedTask(e) == [episode_len |-> e, stochastic |-> FALSE]

TaskReset == 0

TaskStepState(s) == s + 1

TaskStepDone(tk, s) ==
    IF s + 1 >= tk.episode_len THEN {TRUE}
    ELSE IF tk.stochastic THEN BOOLEAN ELSE {FALSE}

TaskStepReward == 1

\* controller.plan: a black box; the action it proposes is not modelled
Plan(th, s, new_theta_dict) == 0

\* -------------------------------------------------------- pure helpers
RECURSIVE SumSeq(_)
SumSeq(s) == IF s = <<>> THEN 0 ELSE Head(s) + SumSeq(Tail(s))

\* Python's r[-m:] : the last m rows, or all of r when m = 0 or m > len(r)
LastRows(r, m) ==
    IF m = 0 \/ m >= Len(r) THEN r ELSE SubSeq(r, Len(r) - m + 1, Len(r))

\* Python's r[a:b] for 0 <= a <= b : clamped to the length of r
Slice(r, a, b) ==
    SubSeq(r, a + 1, IF b > Len(r) THEN Len(r) ELSE b)

\* [r[-M:] for r in rollout]
PastTraj(ro, m) ==
    IF ro = <<>> THEN <<>>
    ELSE <<LastRows(ro[1], m), LastRows(ro[2], m), LastRows(ro[3], m)>>

\* variant: an observation equal to the reset state restarts the buffer
AggregateRolloutRestart(ro, s, a, ns) ==
    IF ro = <<>> \/ s = 0 THEN << <<s>>, <<a>>, <<ns>> >>
    ELSE <<Append(ro[1], s), Append(ro[2], a), Append(ro[3], ns)>>

AggregateRollout(ro, s, a, ns) ==
    IF ro = <<>> THEN << <<s>>, <<a>>, <<ns>> >>
    ELSE <<Append(ro[1], s), Append(ro[2], a), Append(ro[3], ns)>>

\* the value None, and a parameter dictionary holding value p
None == [none |-> TRUE, params |-> 0]
Dict(p) == [none |-> FALSE, params |-> p]

\* d(loss)/d(params) of the squared prediction error of pred = st + params
\* against next_st, summed over the rows of the window
ResidualSum(p, window) ==
    SumSeq([row \in 1..Len(window[1]) |-> window[1][row] + p - window[3][row]])

\* _compute_adaptation_loss followed by autograd.grad: the loss is scaled
\* by 1/len(state)
AdaptationGrad(p, window) == ResidualSum(p, window) \div Len(window[1])

\* the inner loop of _adaptation_update: more steps from parameters cur
RECURSIVE AdaptationLoop(_, _, _, _, _)
AdaptationLoop(th, ph, window, cur, more) ==
    IF more = 0 THEN [params |-> cur.params, evals |-> cur.evals]
    ELSE AdaptationLoop(th, ph, window,
            [params |-> th - ph * AdaptationGrad(cur.params, window),
             evals |-> cur.evals + 1], more - 1)

\* variant: no early return on an empty window
AdaptationUpdateEager(th, ph, window, num) ==
    IF window = <<>> THEN [new_theta_dict |-> Dict(th), evals |-> 1 + num]
    ELSE LET first == [params |-> th - ph * AdaptationGrad(th, window), evals |-> 1]
             last == AdaptationLoop(th, ph, window, first, num)
         IN [new_theta_dict |-> Dict(last.params), evals |-> last.evals]

\* _adaptation_update: the new parameters (or None) and the number of
\* times _compute_adaptation_loss ran
AdaptationUpdate(th, ph, window, num) ==
    IF window = <<>> THEN [new_theta_dict |-> None, evals |-> 0]
    ELSE LET first == [params |-> th - ph * AdaptationGrad(th, window), evals |-> 1]
             last == AdaptationLoop(th, ph, window, first, num)
         IN [new_theta_dict |-> Dict(last.params), evals |-> last.evals]

\* variant: the update is written into the module's own parameters
BaseAfterAdaptationInPlace(th, new_theta_dict) ==
    IF new_theta_dict.none THEN th ELSE new_theta_dict.params

\* the parameters of the module theta after _adaptation_update returned
\* new_theta_dict: the dictionary holds clones, and every update builds a
\* new tensor (val - phi * d), so the module keeps its parameters
BaseAfterAdaptation(th, new_theta_dict) == th

\* the adaptation inlined in _collect_traj_per_thread: the loss is not
\* divided by the window length
RECURSIVE WorkerAdaptationLoop(_, _, _, _, _)
WorkerAdaptationLoop(th, ph, window, cur, more) ==
    IF more = 0 THEN [params |-> cur.params, evals |-> cur.evals]
    ELSE WorkerAdaptationLoop(th, ph, window,
            [params |-> th - ph * ResidualSum(cur.params, window),
             evals |-> cur.evals + 1], more - 1)

\* variant: the evaluations of the inner loop are not counted
WorkerAdaptationUncounted(th, ph, past_traj, num) ==
    IF past_traj = <<>> THEN [new_theta_dict |-> None, evals |-> 0]
    ELSE LET first == [params |-> th - ph * ResidualSum(th, past_traj), evals |-> 1]
             last == WorkerAdaptationLoop(th, ph, past_traj, first, num)
         IN [new_theta_dict |-> Dict(last.params), evals |-> 1]

WorkerAdaptation(th, ph, past_traj, num) ==
    IF past_traj = <<>> THEN [new_theta_dict |-> None, evals |-> 0]
    ELSE LET first == [params |-> th - ph * ResidualSum(th, past_traj), evals |-> 1]
             last == WorkerAdaptationLoop(th, ph, past_traj, first, num)
         IN [new_theta_dict |-> Dict(last.params), evals |-> last.evals]

\* one entry of the log of controller.plan calls
PlanEntry(step, past_traj, new_theta_dict) ==
    [t |-> step,
     win |-> IF past_traj = <<>> THEN 0 ELSE Len(past_traj[1]),
     none |-> new_theta_dict.none]

\* one entry of the log of a collection step: the controller.plan call, and
\* the task.step call that follows it with the state the task was in when
\* the action was applied and the done signal it returned
StepEntry(step, past_traj, new_theta_dict, s, done) ==
    [t |-> step,
     win |-> PlanEntry(step, past_traj, new_theta_dict).win,
     none |-> PlanEntry(step, past_traj, new_theta_dict).none,
     task_state |-> s,
     done |-> done]

\* variant: the state task.reset() returns is dropped
StateAfterStepKept(next_state, done, reset_state) ==
    next_state

\* state = next_state, then state = task.reset() when the step signalled
\* done; reset_state is what task.reset() returns
StateAfterStep(next_state, done, reset_state) ==
    IF done THEN reset_state ELSE next_state

\* variant: the remainder is not distributed
RolloutNumsFloor(num, threads) ==
    [pid \in 0..(threads - 1) |-> num \div threads]

\* np.full(num_threads, rollout_num // num_threads) with the first
\* rollout_num % num_threads entries incremented; pids count from 0
RolloutNums(num, threads) ==
    [pid \in 0..(threads - 1) |->
        (num \div threads) + (IF pid < num % threads THEN 1 ELSE 0)]

\* the pids whose process is created, in pid order
RECURSIVE WorkerList(_, _)
WorkerList(nums, pid) ==
    IF pid \notin DOMAIN nums THEN <<>>
    ELSE (IF nums[pid] > 0 THEN <<pid>> ELSE <<>>) \o WorkerList(nums, pid + 1)

\* ------------------------------------------------------------------ Init
Pids == 0..(MaxThreads - 1)
EvalPids == 0..(MaxEvalSamples - 1)

IdleWorker ==
    [pc |-> "idle", rollout_num |-> 0, rollouts |-> <<>>, rollout |-> <<>>,
     state |-> 0, task_state |-> 0, t |-> 0, n |-> 0,
     n_model_steps_total |-> 0,
     n_task_steps_total |-> 0, plan_log |-> <<>>, puts |-> 0]

IdleEvalWorker == [pc |-> "idle", rewards |-> <<>>, plan_log |-> <<>>, puts |-> 0]

\* the store of the logger before any save_params
NoCheckpoint ==
    [saved |-> FALSE, iteration |-> 0, theta |-> 0, phi |-> 0,
     n_task_steps |-> 0, n_model_steps |-> 0, n_rollouts |-> 0,
     dataset |-> <<>>, n_appended |-> 0]

\* MBMRL.__init__, lines 126-159, and the locals of the calls not yet made
InitObject ==
    /\ theta = 3
    /\ phi = 1
    /\ dataset = <<>>
    /\ n_appended = 0
    /\ n_task_steps_total = 0
    /\ n_model_steps_total = 0
    /\ n_rollouts_total = 0
    /\ i = 0
    /\ rollouts = <<>>
    /\ rollout = <<>>
    /\ state = 0
    /\ task_state = 0
    /\ t = 0
    /\ n = 0
    /\ plan_log = <<>>
    /\ rollout_nums = <<>>
    /\ launched = <<>>
    /\ queue = <<>>
    /\ received = 0
    /\ workers = [pid \in Pids |-> IdleWorker]
    /\ eval_workers = [pid \in EvalPids |-> IdleEvalWorker]
    /\ j = 0
    /\ new_losses = <<>>
    /\ traj = <<>>
    /\ start_idx = 0
    /\ src_rollout = <<>>
    /\ mean_rewards = <<>>
    /\ task_idx = 0
    /\ episode = 0
    /\ rewards = <<>>
    /\ eval_rewards = <<>>
    /\ eval_log = <<>>
    /\ reward_sum = 0
    /\ episodes_run = 0
    /\ test_log = <<>>
    /\ start_iter = 0

\* the task list of a run: one stochastic task, then timed tasks
TaskPool(k) ==
    [x \in 1..k |-> IF x = 1 THEN StochasticTask(MaxEpisodeLen) ELSE TimedTask(x - 1)]

\* the configurations of one collection call
CollectConfig ==
    /\ rollout_num \in 0..MaxRolloutNum
    /\ rollout_len \in 1..MaxRolloutLen
    /\ rollout_num * rollout_len <= MaxSteps
    /\ M \in 1..MaxM
    /\ K = 1
    /\ adaptation_update_num \in 0..MaxAdaptNum
    /\ dataset_size = 1
    /\ task = StochasticTask(MaxSteps + 1)
    /\ tasks = <<task>>
    /\ iteration_num = 1
    /\ task_sample_frequency = 1
    /\ task_sample_num = 1
    /\ eval_sample_num = 1
    /\ eval_frequency = 1
    /\ test_iteration_num = 0

\* the object after construction, with one call of _collect_traj pending
Init ==
    /\ CollectConfig
    /\ num_threads \in 1..MaxThreads
    /\ InitObject
    /\ checkpoint = NoCheckpoint
    /\ resumes = 0
    /\ pc = "collect"

notCollect == <<cfgVars, phi, dataVars, i, task, eval_workers, trainVars,
               mean_rewards, evalVars, ckptVars, testVars>>

\* --------------------------------------------- _collect_traj_serial
\* _collect_traj with num_threads <= 1, lines 302-304 and the entry of the
\* for loop
CollectTrajSerialStart ==
    /\ pc = "collect"
    /\ ~(num_threads > 1)
    /\ rollouts' = <<>>
    /\ state' = TaskReset
    /\ task_state' = TaskReset
    /\ rollout' = <<>>
    /\ t' = 0
    /\ n' = 0
    /\ plan_log' = <<>>
    /\ pc' = "serial"
    /\ UNCHANGED <<notCollect, theta, statVars, parVars>>

\* one iteration of the while loop; the iteration that ends the while loop
\* also appends the rollout and enters the next iteration of the for loop
CollectTrajSerialStep ==
    /\ pc = "serial"
    /\ n < rollout_num
    /\ t < rollout_len
    /\ LET past_traj == PastTraj(rollout, M)
           upd == AdaptationUpdate(theta, phi, past_traj, adaptation_update_num)
           action == Plan(theta, state, upd.new_theta_dict)
           next_state == TaskStepState(task_state)
           ro == AggregateRollout(rollout, state, action, next_state)
       IN \E done \in TaskStepDone(task, task_state) :
            /\ n_model_steps_total' = n_model_steps_total + upd.evals
            /\ n_task_steps_total' = n_task_steps_total + 1
            /\ theta' = BaseAfterAdaptation(theta, upd.new_theta_dict)
            /\ plan_log' = Append(plan_log,
                    StepEntry(t, past_traj, upd.new_theta_dict, task_state, done))
            /\ state' = StateAfterStep(next_state, done, TaskReset)
            /\ task_state' = IF done THEN TaskReset ELSE next_state
            /\ IF t + 1 < rollout_len
               THEN /\ rollout' = ro
                    /\ t' = t + 1
                    /\ UNCHANGED <<rollouts, n>>
               ELSE /\ rollouts' = Append(rollouts, ro)
                    /\ n' = n + 1
                    /\ rollout' = <<>>
                    /\ t' = 0
    /\ UNCHANGED <<notCollect, n_rollouts_total, pc, parVars>>

CollectTrajSerialReturn ==
    /\ pc = "serial"
    /\ n >= rollout_num
    /\ pc' = "returned"
    /\ UNCHANGED <<notCollect, theta, statVars, localVars, parVars>>

\* ------------------------------------------- _collect_traj_parallel
\* lines 281-293: the per-worker counts, one process per positive count,
\* all started
CollectTrajParallelStart ==
    /\ pc = "collect"
    /\ num_threads > 1
    /\ LET nums == RolloutNums(rollout_num, num_threads)
       IN /\ rollout_nums' = nums
          /\ launched' = WorkerList(nums, 0)
          /\ workers' = [pid \in Pids |->
                IF pid \in DOMAIN nums /\ nums[pid] > 0
                THEN [IdleWorker EXCEPT !.pc = "start",
                                        !.rollout_num = nums[pid]]
                ELSE IdleWorker]
    /\ queue' = <<>>
    /\ received' = 0
    /\ rollouts' = <<>>
    /\ pc' = "get"
    /\ UNCHANGED <<notCollect, theta, statVars, rollout, state, t, n, plan_log,
                   task_state>>

\* variant: the parent stops receiving after the first message
AllReceivedFirst == received >= 1 \/ launched = <<>>

\* variant: the parent waits only for the workers that are still alive
AllReceivedAlive ==
    received >= Cardinality({x \in DOMAIN launched :
                    IF pc = "eval_get" THEN eval_workers[launched[x]].pc # "crashed"
                    ELSE workers[launched[x]].pc # "crashed"})

\* "for _ in workers": one blocking queue.get() per created process
AllReceived == received >= Len(launched)

\* variant: the parent's counter is overwritten
MergeCountAssign(total, part) == part

\* lines 297-298: a worker's counter is added to the parent's
MergeCount(total, part) == total + part

\* lines 295-298: the blocking queue.get() and the merge of one message

CollectTrajParallelGet ==
    /\ pc = "get"
    /\ ~AllReceived
    /\ queue # <<>>
    /\ LET msg == Head(queue)
       IN /\ rollouts' = rollouts \o msg[1]
          /\ n_model_steps_total' = MergeCount(n_model_steps_total, msg[2])
          /\ n_task_steps_total' = MergeCount(n_task_steps_total, msg[3])
    /\ queue' = Tail(queue)
    /\ received' = received + 1
    /\ UNCHANGED <<notCollect, theta, n_rollouts_total, pc,
                   rollout, state, t, n, plan_log, task_state, rollout_nums,
                   launched, workers>>

CollectTrajParallelReturn ==
    /\ pc = "get"
    /\ AllReceived
    /\ pc' = "returned"
    /\ UNCHANGED <<notCollect, theta, statVars, localVars, parVars>>

\* ---------------------------------------- _collect_traj_per_thread
\* A worker runs in a process of its own (spawn context) on pickled copies
\* of its arguments: nothing it does before its queue.put is visible to
\* the parent or to another worker, so its run is one step of the system.

\* lines 39-47: the worker's set-up
WorkerEntry(w) ==
    [w EXCEPT !.rollouts = <<>>, !.state = TaskReset, !.task_state = TaskReset,
              !.n_model_steps_total = 0, !.n_task_steps_total = 0,
              !.rollout = <<>>, !.t = 0, !.n = 0, !.plan_log = <<>>]

\* one iteration of the worker's while loop (lines 49-86) under the given
\* done signal; the iteration that ends the while loop also appends the
\* rollout (line 87) and enters the next iteration of the for loop
WorkerStep(w, done) ==
    LET past_traj == PastTraj(w.rollout, M)
        upd == WorkerAdaptation(theta, phi, past_traj, adaptation_update_num)
        action == Plan(theta, w.state, upd.new_theta_dict)
        next_state == TaskStepState(w.task_state)
        ro == AggregateRollout(w.rollout, w.state, action, next_state)
        last == ~(w.t + 1 < rollout_len)
    IN [w EXCEPT
          !.n_model_steps_total = @ + upd.evals,
          !.n_task_steps_total = @ + 1,
          !.plan_log = Append(@, StepEntry(w.t, past_traj, upd.new_theta_dict,
                                           w.task_state, done)),
          !.state = StateAfterStep(next_state, done, TaskReset),
          !.task_state = IF done THEN TaskReset ELSE next_state,
          !.rollout = IF last THEN <<>> ELSE ro,
          !.t = IF last THEN 0 ELSE w.t + 1,
          !.rollouts = IF last THEN Append(@, ro) ELSE @,
          !.n = IF last THEN @ + 1 ELSE @]

\* the worker's locals at the end of the for loop, for every sequence of
\* done signals its task can give
RECURSIVE WorkerLoop(_)
WorkerLoop(w) ==
    IF w.n >= w.rollout_num THEN {w}
    ELSE UNION {WorkerLoop(WorkerStep(w, done)) : done \in TaskStepDone(task, w.task_state)}

\* the whole of _collect_traj_per_thread with a queue: the loops, then
\* line 91, queue.put, after which the process exits
CollectTrajPerThread(pid) ==
    /\ workers[pid].pc = "start"
    /\ \E w \in WorkerLoop(WorkerEntry(workers[pid])) :
        /\ queue' = Append(queue, <<w.rollouts, w.n_model_steps_total, w.n_task_steps_total>>)
        /\ workers' = [workers EXCEPT ![pid] = [w EXCEPT !.pc = "exited", !.puts = @ + 1]]
    /\ UNCHANGED <<notCollect, theta, statVars, pc, localVars,
                   rollout_nums, launched, received>>

\* a worker process dies before its queue.put (an exception in the task,
\* the controller or the model, or a kill): nothing in the code catches it
WorkerCrash(pid) ==
    /\ workers[pid].pc = "start"
    /\ workers' = [workers EXCEPT ![pid] = [@ EXCEPT !.pc = "crashed"]]
    /\ UNCHANGED <<notCollect, theta, statVars, pc, localVars,
                   rollout_nums, launched, queue, received>>

\* ---------------------------------------------------------- evaluate
\* range(5) of _evaluate_serial
EvalEpisodes == 5

\* one episode of an evaluator (lines 101-107 and 381-387) of task tk, from
\* state s with acc accumulated: controller.plan(theta, state), step, add
\* the reward, until done.  The results are the reward sums the episode can
\* end with, each with the log of its plan calls.
RECURSIVE Episode(_, _, _, _, _)
Episode(tk, s, acc, step, log) ==
    LET action == Plan(theta, s, None)
        entry == PlanEntry(step, <<>>, None)
    IN UNION {IF done
              THEN {[reward_sum |-> acc + TaskStepReward,
                     plan_log |-> Append(log, entry)]}
              ELSE Episode(tk, TaskStepState(s), acc + TaskStepReward,
                           step + 1, Append(log, entry))
              : done \in TaskStepDone(tk, s)}

\* _evaluate_per_thread, lines 98-108: one episode per task, in task order
RECURSIVE EvalSweep(_)
EvalSweep(tks) ==
    IF tks = <<>> THEN {[rewards |-> <<>>, plan_log |-> <<>>]}
    ELSE {[rewards |-> <<run.reward_sum>> \o rest.rewards,
           plan_log |-> run.plan_log \o rest.plan_log]
          : run \in Episode(Head(tks), TaskReset, 0, 0, <<>>),
            rest \in EvalSweep(Tail(tks))}

\* np.mean of a list of numbers, kept as <<sum, count>>
Mean(row) == <<SumSeq(row), Len(row)>>

\* np.mean(rows, axis=1): one mean per row
MeanAxis1(rows) ==
    [r \in 1..Len(rows) |-> Mean(rows[r])]

notEval == <<cfgVars, modelVars, dataVars, statVars, i, task, localVars, workers,
            rollout_nums, trainVars, ckptVars, testVars>>

\* evaluate() with num_threads > 1 and eval_sample_num > 1, lines 360-368:
\* eval_sample_num processes, all started
EvaluateParallelStart ==
    /\ pc = "evaluate"
    /\ num_threads > 1 /\ eval_sample_num > 1
    /\ launched' = [k \in 1..eval_sample_num |-> k - 1]
    /\ eval_workers' = [pid \in EvalPids |->
            IF pid < eval_sample_num THEN [IdleEvalWorker EXCEPT !.pc = "start"]
            ELSE IdleEvalWorker]
    /\ queue' = <<>>
    /\ received' = 0
    /\ mean_rewards' = <<>>
    /\ pc' = "eval_get"
    /\ UNCHANGED <<notEval, evalVars>>

\* lines 369-371
EvaluateParallelGet ==
    /\ pc = "eval_get"
    /\ ~AllReceived
    /\ queue # <<>>
    /\ mean_rewards' = Append(mean_rewards, Head(queue))
    /\ queue' = Tail(queue)
    /\ received' = received + 1
    /\ UNCHANGED <<notEval, evalVars, pc, launched, eval_workers>>

\* lines 372-373, and lines 397-398 of evaluate
EvaluateParallelReturn ==
    /\ pc = "eval_get"
    /\ AllReceived
    /\ mean_rewards' = MeanAxis1(mean_rewards)
    /\ eval_rewards' = MeanAxis1(mean_rewards)
    /\ pc' = "evaluated"
    /\ UNCHANGED <<notEval, task_idx, episode, rewards, eval_log,
                   launched, queue, received, eval_workers>>

\* the whole of _evaluate_per_thread with a queue, in its own process
EvaluatePerThread(pid) ==
    /\ eval_workers[pid].pc = "start"
    /\ \E sweep \in EvalSweep(tasks) :
        /\ queue' = Append(queue, sweep.rewards)
        /\ eval_workers' = [eval_workers EXCEPT ![pid] =
                [pc |-> "exited", rewards |-> sweep.rewards,
                 plan_log |-> sweep.plan_log, puts |-> @.puts + 1]]
    /\ UNCHANGED <<notEval, evalVars, pc, launched, received, mean_rewards>>

\* an evaluation worker dies before its queue.put
EvalWorkerCrash(pid) ==
    /\ eval_workers[pid].pc = "start"
    /\ eval_workers' = [eval_workers EXCEPT ![pid] = [@ EXCEPT !.pc = "crashed"]]
    /\ UNCHANGED <<notEval, evalVars, pc, launched, queue, received, mean_rewards>>

notEvalSerial == <<notEval, launched, queue, received, eval_workers>>

\* evaluate() otherwise: _evaluate_serial, line 376 and the entry of the
\* loops
EvaluateSerialStart ==
    /\ pc = "evaluate"
    /\ ~(num_threads > 1 /\ eval_sample_num > 1)
    /\ mean_rewards' = <<>>
    /\ task_idx' = 0
    /\ episode' = 0
    /\ rewards' = <<>>
    /\ eval_log' = <<>>
    /\ pc' = "eval_serial"
    /\ UNCHANGED <<notEvalSerial, eval_rewards>>

\* lines 381-388: one episode of the current task; the last of the five
\* also appends the task's mean (line 389) and moves to the next task
EvaluateSerialEpisode ==
    /\ pc = "eval_serial"
    /\ task_idx < Len(tasks)
    /\ \E run \in Episode(tasks[task_idx + 1], TaskReset, 0, 0, <<>>) :
        /\ eval_log' = eval_log \o run.plan_log
        /\ IF episode + 1 < EvalEpisodes
           THEN /\ rewards' = Append(rewards, run.reward_sum)
                /\ episode' = episode + 1
                /\ UNCHANGED <<mean_rewards, task_idx>>
           ELSE /\ mean_rewards' = Append(mean_rewards,
                                          Mean(Append(rewards, run.reward_sum)))
                /\ task_idx' = task_idx + 1
                /\ episode' = 0
                /\ rewards' = <<>>
    /\ UNCHANGED <<notEvalSerial, eval_rewards, pc>>

\* line 390, and lines 397-398 of evaluate
EvaluateSerialReturn ==
    /\ pc = "eval_serial"
    /\ task_idx >= Len(tasks)
    /\ eval_rewards' = mean_rewards
    /\ pc' = "evaluated"
    /\ UNCHANGED <<notEvalSerial, mean_rewards, task_idx, episode, rewards, eval_log>>

\* -------------------------------------------------------------- train
\* variant: a deque without maxlen
DequeAppendUnbounded(d, x, maxlen) == Append(d, x)

\* deque(maxlen).append: a full deque drops its leftmost element
DequeAppend(d, x, maxlen) ==
    IF maxlen = 0 THEN d
    ELSE IF Len(d) >= maxlen THEN Append(Tail(d), x)
    ELSE Append(d, x)

\* deque.extend: append the elements one by one, left to right
RECURSIVE DequeExtend(_, _, _)
DequeExtend(d, xs, maxlen) ==
    IF xs = <<>> THEN d
    ELSE DequeExtend(DequeAppend(d, Head(xs), maxlen), Tail(xs), maxlen)

\* np.random.shuffle(d): every rearrangement of d in place
Shuffles(d) ==
    {[x \in 1..Len(d) |-> d[p[x]]] : p \in Permutations(1..Len(d))}

\* np.random.choice(count): an element of range(count); none (ValueError)
\* when count <= 0
RandomChoice(count) == 0..(count - 1)

\* variant: K is left out of the count
StartIndicesNoK(len_rollout, m, k) == RandomChoice(len_rollout + 1 - m)

\* _sample_traj, line 334: the start indices it can draw for a rollout of
\* len_rollout steps
StartIndices(len_rollout, m, k) == RandomChoice(len_rollout + 1 - m - k)

\* _sample_traj, lines 335-336
SampleWindow(ro, start, m, k) ==
    LET end_idx == start + m + k
    IN [c \in DOMAIN ro |-> Slice(ro[c], start, end_idx)]

\* [t[:M] for t in traj]
FirstRows(tr, m) == [c \in DOMAIN tr |-> Slice(tr[c], 0, m)]

SeqRange(q) == {q[x] : x \in DOMAIN q}

notTrain == <<cfgVars, phi, resumes, testVars>>

\* lines 426-431: the head of the loop and the choice of collecting
TrainLoop ==
    /\ pc = "train"
    /\ IF i >= iteration_num
       THEN /\ pc' = "done"
            /\ UNCHANGED <<task, j, new_losses>>
       ELSE IF i % task_sample_frequency = 0
       THEN /\ task' \in SeqRange(tasks)
            /\ pc' = "collect"
            /\ UNCHANGED <<j, new_losses>>
       ELSE /\ pc' = "adapt"
            /\ j' = 0
            /\ new_losses' = <<>>
            /\ UNCHANGED task
    /\ UNCHANGED <<notTrain, theta, dataVars, statVars, i, localVars, parVars,
                   eval_workers, traj, start_idx, src_rollout, mean_rewards,
                   evalVars, checkpoint>>

\* line 434: self._n_rollouts_total += 1
RolloutsTotal(total, collected) == total + 1

\* lines 434-440, after _collect_traj returned: count, extend, shuffle.
\* Each appended rollout is stamped with its insertion number.  The locals
\* and the processes of the finished call are gone.
TrainExtend ==
    /\ pc = "returned"
    /\ n_rollouts_total' = RolloutsTotal(n_rollouts_total, rollouts)
    /\ LET stamped == [x \in 1..Len(rollouts) |->
                          [id |-> n_appended + x, rollout |-> rollouts[x]]]
       IN dataset' \in Shuffles(DequeExtend(dataset, stamped, dataset_size))
    /\ n_appended' = n_appended + Len(rollouts)
    /\ rollouts' = <<>>
    /\ plan_log' = <<>>
    /\ state' = 0
    /\ task_state' = 0
    /\ rollout_nums' = <<>>
    /\ launched' = <<>>
    /\ workers' = [pid \in Pids |-> IdleWorker]
    /\ pc' = "adapt"
    /\ j' = 0
    /\ new_losses' = <<>>
    /\ UNCHANGED <<notTrain, theta, n_task_steps_total, n_model_steps_total,
                   i, task, rollout, t, n, queue, received, eval_workers,
                   traj, start_idx, src_rollout, mean_rewards,
                   evalVars, checkpoint>>

\* one iteration of the adaptation loop, lines 441-448: _sample_traj, then
\* the adaptation on the first M rows and the loss under the new parameters.
\* np.random.choice raises when the dataset is empty or the rollout is
\* shorter than M + K.
TrainAdapt ==
    /\ pc = "adapt"
    /\ j < task_sample_num
    /\ IF RandomChoice(Len(dataset)) = {}
       THEN /\ pc' = "error"
            /\ UNCHANGED <<theta, n_model_steps_total, trainVars>>
       ELSE \E idx \in RandomChoice(Len(dataset)) :
            LET ro == dataset[idx + 1].rollout
            IN IF StartIndices(Len(ro[1]), M, K) = {}
               THEN /\ pc' = "error"
                    /\ UNCHANGED <<theta, n_model_steps_total, trainVars>>
               ELSE \E start \in StartIndices(Len(ro[1]), M, K) :
                    LET tr == SampleWindow(ro, start, M, K)
                        window == FirstRows(tr, M)
                        upd == AdaptationUpdate(theta, phi, window, adaptation_update_num)
                    IN /\ src_rollout' = ro
                       /\ start_idx' = start
                       /\ traj' = tr
                       /\ theta' = BaseAfterAdaptation(theta, upd.new_theta_dict)
                       /\ n_model_steps_total' = n_model_steps_total + upd.evals + 1
                       /\ new_losses' = Append(new_losses,
                              AdaptationGrad(upd.new_theta_dict.params, window))
                       /\ j' = j + 1
                       /\ pc' = "adapt"
    /\ UNCHANGED <<notTrain, dataVars, n_task_steps_total, n_rollouts_total,
                   i, task, localVars, parVars, eval_workers, mean_rewards,
                   evalVars, checkpoint>>

\* lines 449-457 and _meta_update: one optimizer step on theta along the
\* mean of the collected losses, then the choice of evaluating.  The step
\* of lr_optimizer on the rate phi is not followed: phi keeps its value.
TrainMetaUpdate ==
    /\ pc = "adapt"
    /\ j >= task_sample_num
    /\ theta' = theta - (SumSeq(new_losses) \div Len(new_losses))
    /\ pc' = IF i % eval_frequency = 0 THEN "evaluate" ELSE "end_iteration"
    /\ UNCHANGED <<notTrain, dataVars, statVars, i, task, localVars, parVars,
                   eval_workers, trainVars, mean_rewards,
                   evalVars, checkpoint>>

\* _end_iteration, lines 210-213: _get_params(iter) updated with
\* _get_stats(), and the dataset of _get_extra_data()
GetParams(iter) ==
    [saved |-> TRUE, iteration |-> iter, theta |-> theta, phi |-> phi,
     n_task_steps |-> n_task_steps_total, n_model_steps |-> n_model_steps_total,
     n_rollouts |-> n_rollouts_total, dataset |-> dataset, n_appended |-> n_appended]

\* line 464, _end_iteration(i), and the step of the for loop; the locals
\* and the processes of the finished evaluation are gone
TrainEndIteration ==
    /\ pc \in {"end_iteration", "evaluated"}
    /\ checkpoint' = GetParams(i)
    /\ i' = i + 1
    /\ pc' = "train"
    /\ mean_rewards' = <<>>
    /\ eval_log' = <<>>
    /\ launched' = <<>>
    /\ eval_workers' = [pid \in EvalPids |-> IdleEvalWorker]
    /\ UNCHANGED <<notTrain, theta, dataVars, statVars, task, localVars,
                   rollout_nums, queue, received, workers, trainVars,
                   task_idx, episode, rewards, eval_rewards>>

\* The process running train stops (a kill, a crash, a power cut) after it
\* has saved a checkpoint, and train(resume=True) is called in a new
\* process on a newly built object: line 424 and _resume_train, lines
\* 351-357 (_set_params, _set_stats, _set_extra_data), then the entry of
\* the loop at i = start_iter.  The store of the logger is all that is left
\* of the stopped process.
ResumeTrain ==
    /\ pc \in {"train", "collect", "serial", "get", "returned", "adapt",
              "evaluate", "eval_serial", "eval_get", "evaluated",
              "end_iteration"}
    /\ checkpoint.saved
    /\ resumes < MaxResumes
    /\ resumes' = resumes + 1
    /\ theta' = checkpoint.theta
    /\ phi' = checkpoint.phi
    /\ n_task_steps_total' = checkpoint.n_task_steps
    /\ n_model_steps_total' = checkpoint.n_model_steps
    /\ n_rollouts_total' = checkpoint.n_rollouts
    /\ dataset' = checkpoint.dataset
    /\ n_appended' = checkpoint.n_appended
    /\ i' = checkpoint.iteration
    /\ pc' = "train"
    /\ rollouts' = <<>>
    /\ rollout' = <<>>
    /\ state' = 0
    /\ task_state' = 0
    /\ t' = 0
    /\ n' = 0
    /\ plan_log' = <<>>
    /\ rollout_nums' = <<>>
    /\ launched' = <<>>
    /\ queue' = <<>>
    /\ received' = 0
    /\ workers' = [pid \in Pids |-> IdleWorker]
    /\ eval_workers' = [pid \in EvalPids |-> IdleEvalWorker]
    /\ j' = 0
    /\ new_losses' = <<>>
    /\ traj' = <<>>
    /\ start_idx' = 0
    /\ src_rollout' = <<>>
    /\ mean_rewards' = <<>>
    /\ task_idx' = 0
    /\ episode' = 0
    /\ rewards' = <<>>
    /\ eval_rewards' = <<>>
    /\ eval_log' = <<>>
    /\ UNCHANGED <<cfgVars, task, checkpoint, testVars>>

\* ---------------------------------------------------------------- test
\* line 497: theta.load_state_dict(new_theta_dict) unless it is None
LoadStateDict(th, new_theta_dict) ==
    IF new_theta_dict.none THEN th ELSE new_theta_dict.params

notTest == <<cfgVars, n_task_steps_total, n_rollouts_total, task, rollouts, n,
            plan_log, parVars, eval_workers, trainVars, mean_rewards, evalVars,
            ckptVars, test_iteration_num>>

\* test(task, seed, iteration_num, render, load_iter), lines 472-482: the
\* checkpoint is loaded into the object (_set_params returns its iteration
\* as start_iter), the buffer is emptied and the task is reset
TestStart ==
    /\ pc = "test"
    /\ checkpoint.saved
    /\ theta' = checkpoint.theta
    /\ phi' = checkpoint.phi
    /\ dataset' = checkpoint.dataset
    /\ n_appended' = checkpoint.n_appended
    /\ start_iter' = checkpoint.iteration
    /\ i' = checkpoint.iteration
    /\ rollout' = <<>>
    /\ state' = TaskReset
    /\ task_state' = TaskReset
    /\ pc' = "test_loop"
    /\ UNCHANGED <<cfgVars, statVars, task, rollouts, t, n, plan_log, parVars,
                   eval_workers, trainVars, mean_rewards, evalVars, ckptVars,
                   test_iteration_num, reward_sum, episodes_run, test_log>>

\* line 484 and lines 486-489: the head of the for loop over
\* range(start_iter, iteration_num) and the set-up of one episode
TestEpisodeStart ==
    /\ pc = "test_loop"
    /\ IF i >= test_iteration_num
       THEN /\ pc' = "tested"
            /\ UNCHANGED <<t, reward_sum, state, task_state, test_log>>
       ELSE /\ t' = 0
            /\ reward_sum' = 0
            /\ state' = TaskReset
            /\ task_state' = TaskReset
            /\ test_log' = <<>>
            /\ pc' = "test_step"
    /\ UNCHANGED <<notTest, modelVars, dataVars, n_model_steps_total, i,
                   rollout, start_iter, episodes_run>>

\* one iteration of the while loop, lines 491-510.  past_traj is
\* rollout[-M:], a slice of the list [states, actions, next_states];
\* _compute_adaptation_loss unpacks it into three and raises when it does
\* not hold three tensors.  The step that ends the episode empties the
\* buffer, resets the task and moves the for loop on (line 512).
TestStep ==
    /\ pc = "test_step"
    /\ LET past_traj == LastRows(rollout, M)
           entry == [t |-> t, rollout |-> rollout, past_traj |-> past_traj]
       IN IF past_traj # <<>> /\ Len(past_traj) # 3
          THEN /\ pc' = "error"
               /\ test_log' = Append(test_log, entry)
               /\ UNCHANGED <<modelVars, n_model_steps_total, i, rollout, state,
                              task_state, t, reward_sum, episodes_run>>
          ELSE LET upd == AdaptationUpdate(theta, phi, past_traj, adaptation_update_num)
                   action == Plan(theta, state, upd.new_theta_dict)
                   next_state == TaskStepState(task_state)
                   ro == AggregateRollout(rollout, state, action, next_state)
               IN \E done \in TaskStepDone(task, task_state) :
                    /\ n_model_steps_total' = n_model_steps_total + upd.evals
                    /\ reward_sum' = reward_sum + TaskStepReward
                    /\ theta' = LoadStateDict(theta, upd.new_theta_dict)
                    /\ test_log' = Append(test_log, entry)
                    /\ t' = t + 1
                    /\ IF done
                       THEN /\ rollout' = <<>>
                            /\ state' = TaskReset
                            /\ task_state' = TaskReset
                            /\ i' = i + 1
                            /\ episodes_run' = episodes_run + 1
                            /\ pc' = "test_loop"
                       ELSE /\ rollout' = ro
                            /\ state' = next_state
                            /\ task_state' = next_state
                            /\ UNCHANGED <<i, episodes_run, pc>>
                    /\ UNCHANGED phi
    /\ UNCHANGED <<notTest, dataVars, start_iter>>

\* ------------------------------------------------------- specifications
NextCollectSerial ==
    \/ CollectTrajSerialStart
    \/ CollectTrajSerialStep
    \/ CollectTrajSerialReturn

NextCollectParallel ==
    \/ CollectTrajParallelStart
    \/ CollectTrajParallelGet
    \/ CollectTrajParallelReturn
    \/ \E pid \in Pids : CollectTrajPerThread(pid)
    \/ \E pid \in Pids : WorkerCrash(pid)

NextEvalParallel ==
    \/ EvaluateParallelStart
    \/ EvaluateParallelGet
    \/ EvaluateParallelReturn
    \/ \E pid \in EvalPids : EvaluatePerThread(pid)
    \/ \E pid \in EvalPids : EvalWorkerCrash(pid)

NextEvalSerial ==
    \/ EvaluateSerialStart
    \/ EvaluateSerialEpisode
    \/ EvaluateSerialReturn

\* one call of _collect_traj
Next == NextCollectSerial \/ NextCollectParallel

Spec == Init /\ [][Next]_vars

\* the configurations of one call of evaluate
EvalConfig ==
    /\ rollout_num = 1 /\ rollout_len = 1 /\ M = 1 /\ K = 1
    /\ adaptation_update_num = 0 /\ dataset_size = 1
    /\ iteration_num = 1 /\ task_sample_frequency = 1 /\ task_sample_num = 1
    /\ eval_frequency = 1
    /\ test_iteration_num = 0
    /\ \E k \in 1..MaxTasks : tasks = TaskPool(k)
    /\ task = tasks[1]

\* one parallel call, of collection or of evaluation
InitPar ==
    /\ num_threads \in 2..MaxThreads
    /\ InitObject
    /\ checkpoint = NoCheckpoint
    /\ resumes = 0
    /\ \/ /\ CollectConfig
          /\ pc = "collect"
       \/ /\ EvalConfig
          /\ eval_sample_num \in 2..MaxEvalSamples
          /\ pc = "evaluate"

NextPar == NextCollectParallel \/ NextEvalParallel

ParSpec == InitPar /\ [][NextPar]_vars

\* the parent runs whenever its queue.get() can return
FairSpec ==
    /\ InitPar
    /\ [][NextPar]_vars
    /\ WF_vars(CollectTrajParallelGet)
    /\ WF_vars(CollectTrajParallelReturn)
    /\ WF_vars(EvaluateParallelGet)
    /\ WF_vars(EvaluateParallelReturn)

\* one call of evaluate, serial or parallel
InitEval ==
    /\ EvalConfig
    /\ num_threads \in 1..2
    /\ eval_sample_num \in 1..MaxEvalSamples
    /\ InitObject
    /\ checkpoint = NoCheckpoint
    /\ resumes = 0
    /\ pc = "evaluate"

NextEval == NextEvalSerial \/ NextEvalParallel

EvalSpec == InitEval /\ [][NextEval]_vars

\* train() on a fresh object, on timed tasks
TrainConfig ==
    /\ iteration_num = MaxIter
    /\ tasks = <<TimedTask(2)>>
    /\ task = tasks[1]
    /\ test_iteration_num = 0
    /\ \/ /\ rollout_num \in 0..MaxRolloutNum
          /\ rollout_len = 2 /\ M = 1 /\ K = 1
          /\ adaptation_update_num = 1
          /\ dataset_size \in -1..MaxDatasetSize
          /\ task_sample_frequency \in 1..2
          /\ task_sample_num = 1
          /\ num_threads \in 1..2
          /\ eval_sample_num = num_threads
          /\ eval_frequency = 2
       \/ /\ rollout_num = 1
          /\ rollout_len \in 1..MaxTrainRolloutLen
          /\ M \in 1..MaxM
          /\ K \in 1..MaxK
          /\ adaptation_update_num = 0
          /\ dataset_size \in 1..2
          /\ task_sample_frequency = 1
          /\ task_sample_num \in 1..2
          /\ num_threads = 1
          /\ eval_sample_num = 1
          /\ eval_frequency = 1

\* MBMRL(...) followed by train(): deque(maxlen=int(dataset_size)), line
\* 128, raises ValueError for a negative maxlen; nothing else in __init__
\* looks at the configuration
InitTrain ==
    /\ TrainConfig
    /\ InitObject
    /\ checkpoint = NoCheckpoint
    /\ resumes = 0
    /\ pc = IF dataset_size < 0 THEN "rejected" ELSE "train"

NextTrain ==
    \/ TrainLoop
    \/ TrainExtend
    \/ TrainAdapt
    \/ TrainMetaUpdate
    \/ TrainEndIteration
    \/ NextCollectSerial
    \/ NextCollectParallel
    \/ NextEvalSerial
    \/ NextEvalParallel

TrainSpec == InitTrain /\ [][NextTrain]_vars

\* train() on a fresh object, stopped and resumed from its checkpoints
InitResume ==
    /\ iteration_num = MaxIter
    /\ tasks = <<TimedTask(2)>>
    /\ task = tasks[1]
    /\ test_iteration_num = 0
    /\ rollout_num \in 1..2
    /\ rollout_len = 2 /\ M = 1 /\ K = 1
    /\ adaptation_update_num \in 0..MaxAdaptNum
    /\ dataset_size \in 1..2
    /\ task_sample_frequency \in 1..2
    /\ task_sample_num = 1
    /\ num_threads \in 1..2
    /\ eval_sample_num = num_threads
    /\ eval_frequency \in 1..2
    /\ InitObject
    /\ checkpoint = NoCheckpoint
    /\ resumes = 0
    /\ pc = "train"

NextResume == NextTrain \/ ResumeTrain

ResumeSpec == InitResume /\ [][NextResume]_vars

\* the checkpoints a run of train can have left in the store
SavedCheckpoints ==
    {[NoCheckpoint EXCEPT !.saved = TRUE, !.iteration = it, !.theta = th, !.phi = 1]
        : it \in 0..(MaxIter - 1), th \in {1, 3}}

\* test() on an object built for one task, with a checkpoint in the store
InitTest ==
    /\ rollout_num = 1 /\ rollout_len = 1
    /\ M \in 1..(MaxM + 1)
    /\ K = 1
    /\ adaptation_update_num \in 0..MaxAdaptNum
    /\ dataset_size = 1
    /\ num_threads = 1
    /\ tasks = <<StochasticTask(MaxTestEpisodeLen)>>
    /\ task = tasks[1]
    /\ iteration_num = MaxIter
    /\ task_sample_frequency = 1 /\ task_sample_num = 1
    /\ eval_sample_num = 1 /\ eval_frequency = 1
    /\ test_iteration_num \in 0..MaxTestEpisodes
    /\ InitObject
    /\ checkpoint \in SavedCheckpoints
    /\ resumes = 0
    /\ pc = "test"

NextTest ==
    \/ TestStart
    \/ TestEpisodeStart
    \/ TestStep

TestSpec == InitTest /\ [][NextTest]_vars

\* ================================================================ claims
LaunchedPids == SeqRange(launched)

AllPlanLogs ==
    {plan_log} \cup {workers[pid].plan_log : pid \in Pids}

AllRolloutLists ==
    {rollouts} \cup {workers[pid].rollouts : pid \in Pids}
               \cup {queue[x][1] : x \in {y \in DOMAIN queue : pc = "get"}}

RolloutHasLen(ro, len) ==
    /\ Len(ro) = 3
    /\ Len(ro[1]) = len /\ Len(ro[2]) = len /\ Len(ro[3]) = len

\* C1: every rollout that collection has completed, in the serial loop, in a
\* worker, in a worker's message and in the merged list, has states, actions
\* and next_states of exactly rollout_len rows, whatever the done signals
\* were; and the buffer in progress holds one row per step taken since the
\* rollout began, so a termination never shortens, lengthens or restarts it.
C1_RolloutLength ==
    /\ \A rs \in AllRolloutLists : \A x \in DOMAIN rs :
            RolloutHasLen(rs[x], rollout_len)
    /\ pc = "serial" =>
            IF t = 0 THEN rollout = <<>> ELSE RolloutHasLen(rollout, t)
    /\ pc = "returned" => Len(rollouts) = rollout_num

\* a serial call has returned rollouts of three steps in which the task
\* ended an episode in the middle of a rollout
C1_Witness ==
    /\ pc = "returned" /\ num_threads = 1 /\ rollout_len = 3
    /\ \E x \in DOMAIN rollouts :
            /\ rollouts[x][1][2] = TaskReset
            /\ rollouts[x][1][3] # TaskReset

\* C2: the dataset of a constructed object never holds more than
\* dataset_size rollouts, and holds exactly dataset_size once that many have
\* been appended.
C2_DatasetCapacity ==
    pc # "rejected" =>
        /\ Len(dataset) <= dataset_size
        /\ n_appended >= dataset_size => Len(dataset) = dataset_size

\* more rollouts than the capacity were appended, over several phases
C2_Witness ==
    /\ dataset_size >= 2
    /\ n_appended > dataset_size
    /\ Len(dataset) = dataset_size
    /\ i >= 1

\* C3: the dataset is FIFO by insertion time: the rollouts it holds are the
\* most recently appended ones.
C3_FifoEviction ==
    \A x \in DOMAIN dataset : dataset[x].id > n_appended - Len(dataset)

\* C4: a sampled window starts at an index from 0 to L - M - K of its
\* rollout of L steps and is the M + K contiguous rows from there; and for
\* every stored rollout with L >= M + K the indices _sample_traj can draw
\* are exactly 0 .. L - M - K.
C4_SampleValid ==
    /\ src_rollout # <<>> =>
        /\ 0 <= start_idx
        /\ start_idx + M + K <= Len(src_rollout[1])
        /\ \A c \in 1..3 :
            /\ Len(traj[c]) = M + K
            /\ traj[c] = SubSeq(src_rollout[c], start_idx + 1, start_idx + M + K)
    /\ \A x \in DOMAIN dataset :
        LET L == Len(dataset[x].rollout[1])
        IN L >= M + K => StartIndices(L, M, K) = 0..(L - M - K)

\* M = 2, K = 1, a rollout of 5 steps, and the last admissible start index
C4_Witness ==
    /\ M = 2 /\ K = 1
    /\ src_rollout # <<>>
    /\ Len(src_rollout[1]) = 5
    /\ start_idx = 2

RECURSIVE SumNums(_, _)
SumNums(nums, pid) ==
    IF pid \notin DOMAIN nums THEN 0 ELSE nums[pid] + SumNums(nums, pid + 1)

\* C5: once a parallel collection has created its workers, the per-worker
\* counts sum to rollout_num, differ pairwise by at most 1, exceed the
\* quotient exactly for the first rollout_num mod num_threads workers, and
\* a process exists for a worker exactly when its count is positive.
C5_Partition ==
    (pc \in {"get", "returned"} /\ num_threads > 1) =>
        /\ DOMAIN rollout_nums = 0..(num_threads - 1)
        /\ SumNums(rollout_nums, 0) = rollout_num
        /\ \A p, q \in DOMAIN rollout_nums :
                rollout_nums[p] - rollout_nums[q] <= 1
        /\ \A p \in DOMAIN rollout_nums :
                (p < rollout_num % num_threads) <=>
                    (rollout_nums[p] > rollout_num \div num_threads)
        /\ \A p \in Pids :
                (workers[p].pc # "idle") <=>
                    (p \in DOMAIN rollout_nums /\ rollout_nums[p] > 0)
        /\ LaunchedPids = {p \in DOMAIN rollout_nums : rollout_nums[p] > 0}
        /\ \A p \in LaunchedPids : workers[p].rollout_num = rollout_nums[p]

\* an uneven partition in which one worker gets nothing and is not created
C5_Witness ==
    /\ pc = "get"
    /\ rollout_num % num_threads # 0
    /\ Len(launched) >= 2
    /\ Len(launched) < num_threads

\* C6: a collection call that has returned, serial or parallel, has
\* returned rollout_num rollouts and raised the task-step counter by
\* rollout_num * rollout_len and the model-step counter by
\* rollout_num * (rollout_len - 1) * (1 + adaptation_update_num): the
\* amounts depend on the configuration only, not on num_threads.
C6_ParallelSerialCounts ==
    pc = "returned" =>
        /\ Len(rollouts) = rollout_num
        /\ n_task_steps_total = rollout_num * rollout_len
        /\ n_model_steps_total =
                rollout_num * (rollout_len - 1) * (1 + adaptation_update_num)

\* a parallel call with an uneven partition has returned, with adaptation
C6_Witness ==
    /\ pc = "returned" /\ num_threads > 1
    /\ Len(launched) >= 2
    /\ rollout_num % num_threads # 0
    /\ adaptation_update_num >= 1
    /\ n_model_steps_total > 0

Returned == pc \in {"returned", "evaluated"}

\* the workers of the running parallel call
CallWorkers == IF pc \in {"eval_get", "evaluated"} THEN eval_workers ELSE workers

RECURSIVE SumPuts(_, _)
SumPuts(ws, pid) ==
    IF pid \notin DOMAIN ws THEN 0 ELSE ws[pid].puts + SumPuts(ws, pid + 1)

\* C7: in a parallel call no worker puts more than one message, the parent
\* has received no more messages than there are created workers, every
\* message put is in the queue or received, and when the parent returns it
\* has received one message per created worker, each of them has put exactly
\* one, and the queue is empty.
C7_OneMessagePerWorker ==
    (pc \in {"get", "eval_get", "returned", "evaluated"}) =>
        /\ \A p \in DOMAIN CallWorkers : CallWorkers[p].puts <= 1
        /\ \A p \in DOMAIN CallWorkers :
                CallWorkers[p].puts = 1 => p \in LaunchedPids
        /\ received <= Len(launched)
        /\ received + Len(queue) = SumPuts(CallWorkers, 0)
        /\ Returned =>
            /\ received = Len(launched)
            /\ queue = <<>>
            /\ \A p \in LaunchedPids : CallWorkers[p].puts = 1

\* a parallel evaluation with three workers has returned
C7_Witness ==
    /\ pc = "evaluated"
    /\ Len(launched) >= 3
    /\ received = Len(launched)

SeqToBag(q) ==
    [e \in SeqRange(q) |-> Cardinality({x \in DOMAIN q : q[x] = e})]

RECURSIVE WorkerRollouts(_)
WorkerRollouts(pid) ==
    IF pid \notin Pids THEN <<>>
    ELSE workers[pid].rollouts \o WorkerRollouts(pid + 1)

RECURSIVE SumWorkerTaskSteps(_)
SumWorkerTaskSteps(pid) ==
    IF pid \notin Pids THEN 0
    ELSE workers[pid].n_task_steps_total + SumWorkerTaskSteps(pid + 1)

RECURSIVE SumWorkerModelSteps(_)
SumWorkerModelSteps(pid) ==
    IF pid \notin Pids THEN 0
    ELSE workers[pid].n_model_steps_total + SumWorkerModelSteps(pid + 1)

\* C8: when a parallel collection returns, whatever order the workers'
\* messages arrived in, the merged list holds exactly the rollouts the
\* workers produced, as a multiset, and each counter of the parent has grown
\* by the sum of the workers' counters.
C8_OrderIndependentMerge ==
    (pc = "returned" /\ num_threads > 1) =>
        /\ SeqToBag(rollouts) = SeqToBag(WorkerRollouts(0))
        /\ n_task_steps_total = SumWorkerTaskSteps(0)
        /\ n_model_steps_total = SumWorkerModelSteps(0)

\* a parallel call has returned whose merged list is not in pid order, from
\* workers with different counters
C8_Witness ==
    /\ pc = "returned" /\ num_threads > 1
    /\ rollouts # WorkerRollouts(0)
    /\ \E p, q \in LaunchedPids :
            workers[p].n_task_steps_total # workers[q].n_task_steps_total

AllLaunchedExited == \A p \in LaunchedPids : CallWorkers[p].pc = "exited"

\* C9: the parent of a parallel call has returned only if every created
\* worker has put its result, so a worker that crashes or hangs before its
\* put keeps the parent blocked for ever; and once every created worker has
\* put its result, the parent eventually returns.
C9_BlocksUntilAllPut ==
    /\ [](Returned => AllLaunchedExited)
    /\ []((\E p \in LaunchedPids : CallWorkers[p].pc = "crashed") => [](~Returned))
    /\ ((pc \in {"get", "eval_get"} /\ AllLaunchedExited) ~> Returned)

\* one worker has crashed, the messages of all the others are received, and
\* the parent is blocked on the empty queue
C9_Witness ==
    /\ pc = "get"
    /\ Len(launched) >= 2
    /\ \E p \in LaunchedPids : workers[p].pc = "crashed"
    /\ received = Len(launched) - 1
    /\ queue = <<>>

\* C10: _adaptation_update on the empty window returns None and evaluates
\* the model zero times; every controller.plan call at the first step of a
\* rollout, in the serial loop and in a worker, got None after an empty
\* window; and the serial loop's model-step counter shows no evaluation
\* for the first step of any rollout.
C10_EmptyWindowNone ==
    /\ AdaptationUpdate(theta, phi, <<>>, adaptation_update_num)
            = [new_theta_dict |-> None, evals |-> 0]
    /\ \A log \in AllPlanLogs : \A x \in DOMAIN log :
            log[x].t = 0 => (log[x].none /\ log[x].win = 0)
    /\ pc = "serial" =>
            n_model_steps_total =
                (n * (rollout_len - 1) + (IF t = 0 THEN 0 ELSE t - 1))
                    * (1 + adaptation_update_num)

\* the serial loop has taken the first step of its second rollout
C10_Witness ==
    /\ pc = "serial"
    /\ n = 1 /\ t = 1
    /\ rollout_len >= 2
    /\ Len(plan_log) = rollout_len + 1
    /\ plan_log[rollout_len + 1].none

\* the plan logs of the evaluators: the serial loop's and the workers'
AllEvalLogs ==
    {eval_log} \cup {eval_workers[pid].plan_log : pid \in EvalPids}

\* the mean over the workers of task k's accumulated reward
TaskMeanOverWorkers(k) ==
    Mean([x \in 1..Len(launched) |-> eval_workers[launched[x]].rewards[k]])

\* C11: when evaluate has returned, in either mode, its result has exactly
\* len(tasks) entries, one mean per task in task order: in serial mode entry
\* k is a mean over the repeated episodes of task k, in parallel mode it is
\* the mean over the eval_sample_num workers of task k's reward.
C11_OneMeanPerTask ==
    pc = "evaluated" =>
        /\ Len(eval_rewards) = Len(tasks)
        /\ \A k \in DOMAIN eval_rewards :
            IF num_threads > 1 /\ eval_sample_num > 1
            THEN eval_rewards[k] = TaskMeanOverWorkers(k)
            ELSE eval_rewards[k][2] >= 1

\* C12: the iteration that train is executing, in a first or in a resumed
\* run, is always after the iteration of the latest checkpoint: a resumed
\* run starts at the iteration after the checkpointed one, so that no
\* iteration index is executed twice.
C12_NoIterationTwice ==
    checkpoint.saved => i > checkpoint.iteration

\* C13: over a run of train the base parameters theta change only in the
\* optimizer step of the meta-update: every step of trajectory collection,
\* of the adaptation loop of train and of evaluation, with all its adapt
\* calls, leaves them as they were.
C13_BaseOnlyMetaUpdate ==
    [][theta' # theta =>
        /\ pc = "adapt" /\ j >= task_sample_num
        /\ pc' \in {"evaluate", "end_iteration"}]_vars

\* in the second iteration a serial collection has adapted on a non-empty
\* window, and theta is still what the first meta-update made of it
C13_Witness ==
    /\ pc = "serial" /\ i = 1 /\ n >= 1
    /\ adaptation_update_num = 1
    /\ n_model_steps_total > checkpoint.n_model_steps
    /\ theta # 3
    /\ theta = checkpoint.theta

BadConfig == dataset_size <= 0 \/ M + K > rollout_len

\* C14: an object whose configuration has a non-positive dataset capacity
\* or M + K > rollout_len is rejected at construction: it never exists in
\* any other state, and no task step was taken for it.
C14_RejectedAtConstruction ==
    BadConfig => (pc = "rejected" /\ n_task_steps_total = 0)

\* C15: in testing mode the buffer is empty at every episode boundary, and
\* the window passed to adapt at every step is the most recent M
\* transitions of the current episode's buffer, empty at the first step.
C15_TestWindow ==
    /\ pc = "test_loop" => rollout = <<>>
    /\ \A x \in DOMAIN test_log :
        /\ test_log[x].past_traj = PastTraj(test_log[x].rollout, M)
        /\ test_log[x].t = 0 => test_log[x].past_traj = <<>>

\* C16: at step t of a rollout in collection the adaptation window is empty
\* when t < M and has exactly M rows when t >= M.
C16_WindowEmptyOrFull ==
    \A log \in AllPlanLogs : \A x \in DOMAIN log :
        /\ log[x].t < M => (log[x].win = 0 /\ log[x].none)
        /\ log[x].t >= M => log[x].win = M

\* C17: the first transition of every collected rollout starts from the
\* state task.reset() returns.
C17_ResetEveryRollout ==
    \A rs \in AllRolloutLists : \A x \in DOMAIN rs :
        rs[x][1][1] = TaskReset

\* C18: every step of an evaluator after the first of its episode passes to
\* controller.plan the parameters adapted from the episode's trailing
\* history, as the collector does.
C18_EvaluatorAdapts ==
    \A log \in AllEvalLogs : \A x \in DOMAIN log :
        log[x].t >= 1 => (~log[x].none /\ log[x].win >= 1)

\* gradient descent in which every step starts from the latest parameters
RECURSIVE ChainedDescent(_, _, _, _)
ChainedDescent(p, ph, window, steps) ==
    IF steps = 0 THEN p
    ELSE ChainedDescent(p - ph * AdaptationGrad(p, window), ph, window, steps - 1)

\* C19: adapt on the non-empty window of a collection step evaluates the
\* model 1 + adaptation_update_num times and returns the parameters of that
\* many chained gradient-descent steps from the base, each applied to the
\* latest specialized parameters.
C19_ChainedSteps ==
    (pc = "serial" /\ rollout # <<>>) =>
        LET window == PastTraj(rollout, M)
            upd == AdaptationUpdate(theta, phi, window, adaptation_update_num)
        IN /\ upd.evals = 1 + adaptation_update_num
           /\ upd.new_theta_dict.params =
                ChainedDescent(theta, phi, window, 1 + adaptation_update_num)

\* C20: the rollouts-collected counter equals the number of rollouts
\* appended to the dataset so far.
C20_RolloutsCounted ==
    n_rollouts_total = n_appended

\* C21: when test has returned it has run exactly iteration_num episodes,
\* whatever iteration the loaded checkpoint holds.
C21_ExactEpisodeCount ==
    pc = "tested" => episodes_run = test_iteration_num

\* the collectors whose step log is at hand: the serial loop, and every
\* worker that has run; each with its completed rollouts, its buffer in
\* progress and its log
Collectors ==
    {[rollouts |-> rollouts, rollout |-> rollout, log |-> plan_log] :
        x \in {y \in {1} : pc \in {"serial", "returned"} /\ ~(num_threads > 1)}}
    \cup
    {[rollouts |-> workers[pid].rollouts, rollout |-> workers[pid].rollout,
      log |-> workers[pid].plan_log] :
        pid \in {p \in Pids : workers[p].pc = "exited"}}

\* the transitions of buffer ro, whose steps are logged from entry base + 1
\* on, are chained
ChainedRollout(ro, log, base) ==
    \A tt \in 1..(IF ro = <<>> THEN 0 ELSE Len(ro[1])) :
        LET e == log[base + tt]
        IN /\ ro[1][tt] = e.task_state
           /\ tt < Len(ro[1]) =>
                ro[1][tt + 1] = (IF e.done THEN TaskReset ELSE ro[3][tt])

\* C22: within every collected rollout, and within the buffer in progress,
\* the state of each transition is the state the task was in when the
\* action was applied, and the state of the transition after it is the
\* next_state of this one when the task did not signal done and the state
\* task.reset() returns when it did.
C22_TransitionsChained ==
    \A c \in Collectors :
        /\ \A x \in DOMAIN c.rollouts :
                ChainedRollout(c.rollouts[x], c.log, (x - 1) * rollout_len)
        /\ ChainedRollout(c.rollout, c.log, Len(c.rollouts) * rollout_len)

\* a serial call has returned a rollout of three steps whose first step
\* ended an episode and whose second did not
C22_Witness ==
    /\ pc = "returned" /\ num_threads = 1 /\ rollout_len = 3
    /\ \E x \in DOMAIN rollouts :
            /\ plan_log[(x - 1) * 3 + 1].done
            /\ ~plan_log[(x - 1) * 3 + 2].done
            /\ rollouts[x][1][2] = TaskReset
            /\ rollouts[x][1][3] = rollouts[x][3][2]

====
